---- MODULE Spec2Model ----
(***************************************************************************)
(* Lyric-video authoring tool: the preview/export component (VideoPlayer), *)
(* the SRT reader and writer, and the App screens with their AI helpers.   *)
(*                                                                         *)
(* Time is counted in whole ticks.  In the player a tick is one step of    *)
(* the audio clock; in the SRT functions a tick is one millisecond.        *)
(* Strings that are parsed or formatted are sequences of one-character     *)
(* strings.                                                                *)
(***************************************************************************)
EXTENDS Integers, Sequences, FiniteSets, TLC

\* ------------------------------------------------------------------ bounds
MaxLyrics == 2      \* longest timed-lyric list of a session
MaxTime == 2        \* largest lyric timestamp of an arbitrary list (ticks)
Duration == 3       \* audio.duration (ticks)

NULL == "null"

VARIABLES
  \* VideoPlayer props and state
  timedLyrics, isPlaying, currentTime, fontSize, fontFamily, aspectRatio,
  resolution, exportProgress, isExportCancelled,
  \* the audio element
  audioTime, audioPaused,
  \* one run of handleExportVideo
  exportPc, wasPlaying, recorderState, canvasCurrentIndex, frameTime,
  downloaded, alertShown, srtDownload,
  \* the background images: how many there are, the one the preview shows,
  \* the duration the latest render read, the one the running export was
  \* made with, and the image of the latest exported frame
  imageUrls, bgIndex, durationValue, exportDurationValue, currentBgIndex,
  \* App state
  appState, lyricsText, timedLyricsFromSrt, appAlert, songTitle, artistName,
  \* history: the screen the PREVIEW screen was last entered from ("none"
  \* before the first entry)
  previewEnteredFrom,
  \* whether the Loader of the form keeps the user from the form under it
  loaderIsModal,
  backgroundImages, isLoading, isAiUnlocked,
  \* the invocations of generateImagesForLyrics, oldest first
  imageRuns,
  \* more App state, and the AI call other than image generation in flight
  audioFile, audioDuration, isKeySelected, videoUrl, aiRun,
  \* an SRT file on disk (its lines), and one run of handleSrtUpload: the text
  \* being read, then the text read and what parseSrt made of it
  srtLines, srtReading, srtText, parsed

settingVars == <<fontSize, fontFamily, aspectRatio, resolution>>
audioVars == <<audioTime, audioPaused>>
exportVars == <<exportProgress, isExportCancelled, exportPc, wasPlaying,
                recorderState, canvasCurrentIndex, frameTime, downloaded,
                alertShown>>
bgVars == <<imageUrls, bgIndex, durationValue, exportDurationValue,
            currentBgIndex>>
playerVars == <<timedLyrics, isPlaying, currentTime, settingVars, audioVars,
                exportVars, srtDownload, bgVars>>

srtVars == <<srtLines, srtReading, srtText, parsed>>
formVars == <<songTitle, artistName, backgroundImages, isLoading, isAiUnlocked,
              imageRuns>>
aiVars == <<audioFile, audioDuration, isKeySelected, videoUrl, aiRun>>
appVars == <<appState, previewEnteredFrom, loaderIsModal, lyricsText, timedLyricsFromSrt,
             appAlert, srtVars, formVars, aiVars>>

vars == <<playerVars, appVars>>

\* ------------------------------------------------------ timed lyric lists
Lyric(text, startTime, endTime) ==
  [text |-> text, startTime |-> startTime, endTime |-> endTime]

\* lists of exactly n elements of S
RECURSIVE SeqsOfLen(_, _)
SeqsOfLen(S, n) ==
  IF n = 0 THEN {<<>>}
  ELSE {Append(s, x) : s \in SeqsOfLen(S, n - 1), x \in S}

SeqsUpTo(S, n) == UNION {SeqsOfLen(S, k) : k \in 0..n}

\* Any list an uploaded SRT file can produce: any order, overlaps, gaps,
\* end before start.
AnyLyrics ==
  SeqsUpTo({Lyric(<<"x">>, s, e) : s \in 0..MaxTime, e \in 0..MaxTime}, MaxLyrics)

\* The list manual timing produces for n lines: in order, a gap before each.
TimingLyrics(n) == [i \in 1..n |-> Lyric(<<"x">>, 2 * i - 1, 2 * i)]

\* -------------------------------------------------- active index (preview)
\* (variant: the end timestamp taken as inclusive)
lyricIsActiveEndInclusive(lyric, t) == t >= lyric.startTime /\ t <= lyric.endTime

lyricIsActive(lyric, t) == t >= lyric.startTime /\ t < lyric.endTime

\* Array.prototype.findIndex with the predicate above; 0-based, -1 if none.
findIndex(lyrics, t) ==
  LET hits == {i \in 1..Len(lyrics) : lyricIsActive(lyrics[i], t)}
  IN  IF hits = {} THEN -1
      ELSE (CHOOSE i \in hits : \A j \in hits : i <= j) - 1

\* the loop of lines 105-112: the last index of the leading run of lyrics
\* whose end has passed (0-based), -1 if the first one has not passed.
RECURSIVE lastPassedFrom(_, _, _, _)
lastPassedFrom(lyrics, t, i, acc) ==
  IF i > Len(lyrics) THEN acc
  ELSE IF t >= lyrics[i].endTime
       THEN lastPassedFrom(lyrics, t, i + 1, i - 1)
       ELSE acc

lastPassedIndex(lyrics, t) == lastPassedFrom(lyrics, t, 1, -1)

\* (variant: the two leading dummy entries forgotten)
gapIndexNoDummies(lyrics, t) == lastPassedIndex(lyrics, t) + 1

gapIndex(lyrics, t) ==
  LET passed == lastPassedIndex(lyrics, t)
  IN  IF passed # -1 THEN passed + 2 + 1 ELSE 1

\* (variant: the state before playback is not told apart)
activeIndexStarted(lyrics, t, playing) ==
  LET index == findIndex(lyrics, t)
  IN  IF index # -1 THEN index + 2
      ELSE IF Len(lyrics) > 0 /\ t >= lyrics[Len(lyrics)].endTime
           THEN Len(lyrics) + 2
           ELSE gapIndex(lyrics, t)

activeIndex(lyrics, t, playing) ==
  IF t = 0 /\ ~playing THEN 1
  ELSE LET index == findIndex(lyrics, t)
       IN  IF index # -1 THEN index + 2
           ELSE IF Len(lyrics) > 0 /\ t >= lyrics[Len(lyrics)].endTime
                THEN Len(lyrics) + 2
                ELSE gapIndex(lyrics, t)

\* (variant: a line next to a dummy active line is dimmed, not hidden)
getLyricStyleNoDummy(index, activeIdx, count) ==
  [opacity |-> IF index = activeIdx
               THEN (IF activeIdx < 2 \/ activeIdx > count + 1 THEN 0 ELSE 10)
               ELSE IF index = activeIdx - 1 \/ index = activeIdx + 1 THEN 6
                    ELSE 0]

\* getLyricStyle(index, currentIdx) for a list of count lyrics: the opacity,
\* in tenths
getLyricStyle(index, activeIdx, count) ==
  LET isActiveIndexDummy == activeIdx < 2 \/ activeIdx > count + 1
  IN  [opacity |-> IF index = activeIdx
                   THEN (IF isActiveIndexDummy THEN 0 ELSE 10)
                   ELSE IF /\ ~isActiveIndexDummy
                           /\ (index = activeIdx - 1 \/ index = activeIdx + 1)
                        THEN 6
                        ELSE 0]

\* the memo of the current render
currentIndex == activeIndex(timedLyrics, currentTime, isPlaying)

lyricsToRender ==
  IF Len(timedLyrics) = 0 THEN <<>>
  ELSE <<Lyric(<<>>, -2, -1), Lyric(<<>>, -1, timedLyrics[1].startTime)>>
       \o timedLyrics
       \o <<Lyric(<<>>, 99999, 999999), Lyric(<<>>, 999999, 9999999)>>

\* ------------------------------------------------ active index (export)
frameIndex(lyrics, t) ==
  LET lyricIdx == findIndex(lyrics, t)
  IN  IF lyricIdx # -1 THEN lyricIdx + 2
      ELSE IF Len(lyrics) > 0 /\ t >= lyrics[Len(lyrics)].endTime
           THEN Len(lyrics) + 2
           ELSE 1

\* ------------------------------------------------------------- strings
Digits == <<"0", "1", "2", "3", "4", "5", "6", "7", "8", "9">>

IsDigit(c) == \E d \in 1..10 : Digits[d] = c

DigitValue(c) == (CHOOSE d \in 1..10 : Digits[d] = c) - 1

\* the characters \s and String.prototype.trim treat as white space
IsSpace(c) == c \in {" ", "\t", "\n", "\r"}

\* Number.prototype.toString of a natural number
RECURSIVE toString(_)
toString(n) ==
  IF n < 10 THEN <<Digits[n + 1]>>
  ELSE toString(n \div 10) \o <<Digits[(n % 10) + 1]>>

RECURSIVE padStart(_, _, _)
padStart(str, targetLength, padChar) ==
  IF Len(str) >= targetLength THEN str
  ELSE padStart(<<padChar>> \o str, targetLength, padChar)

\* parseInt(str, 10) of a string that starts with a digit: its leading digits
RECURSIVE parseIntFrom(_, _, _)
parseIntFrom(str, i, acc) ==
  IF i > Len(str) \/ ~IsDigit(str[i]) THEN acc
  ELSE parseIntFrom(str, i + 1, 10 * acc + DigitValue(str[i]))

parseInt(str) == parseIntFrom(str, 1, 0)

\* the least member of a non-empty set of positions
leftmost(at) == CHOOSE i \in at : \A j \in at : i <= j

\* String.prototype.split on one character: the pieces from position from on
RECURSIVE splitFrom(_, _, _)
splitFrom(str, sep, from) ==
  LET at == {i \in from..Len(str) : str[i] = sep}
  IN  IF at = {} THEN <<SubSeq(str, from, Len(str))>>
      ELSE <<SubSeq(str, from, leftmost(at) - 1)>>
             \o splitFrom(str, sep, leftmost(at) + 1)

split(str, sep) == splitFrom(str, sep, 1)

\* Array.prototype.join with one separator character
RECURSIVE join(_, _)
join(strs, sep) ==
  IF Len(strs) = 0 THEN <<>>
  ELSE IF Len(strs) = 1 THEN strs[1]
       ELSE strs[1] \o <<sep>> \o join(Tail(strs), sep)

trim(str) ==
  LET solid == {i \in 1..Len(str) : ~IsSpace(str[i])}
  IN  IF solid = {} THEN <<>>
      ELSE SubSeq(str, CHOOSE i \in solid : \A j \in solid : i <= j,
                       CHOOSE i \in solid : \A j \in solid : i >= j)

\* str.replace(/\r\n/g, '\n')
RECURSIVE replaceCrLfFrom(_, _)
replaceCrLfFrom(str, from) ==
  LET at == {i \in from..(Len(str) - 1) : str[i] = "\r" /\ str[i + 1] = "\n"}
  IN  IF at = {} THEN SubSeq(str, from, Len(str))
      ELSE SubSeq(str, from, leftmost(at) - 1) \o <<"\n">>
             \o replaceCrLfFrom(str, leftmost(at) + 2)

replaceCrLf(str) == replaceCrLfFrom(str, 1)

\* line.includes('-->')
includesArrow(line) ==
  \E i \in 1..(Len(line) - 2) :
    line[i] = "-" /\ line[i + 1] = "-" /\ line[i + 2] = ">"

\* ----------------------------------------------------- SRT: writing
\* (variant: the milliseconds are written without padding)
formatSrtTimeUnpadded(t) ==
  LET h == padStart(toString(t \div 3600000), 2, "0")
      m == padStart(toString((t % 3600000) \div 60000), 2, "0")
      sec == padStart(toString((t % 60000) \div 1000), 2, "0")
      ms == toString(t % 1000)
  IN  h \o <<":">> \o m \o <<":">> \o sec \o <<",">> \o ms

\* formatSrtTime of a time given in milliseconds
formatSrtTime(t) ==
  LET h == padStart(toString(t \div 3600000), 2, "0")
      m == padStart(toString((t % 3600000) \div 60000), 2, "0")
      sec == padStart(toString((t % 60000) \div 1000), 2, "0")
      ms == padStart(toString(t % 1000), 3, "0")
  IN  h \o <<":">> \o m \o <<":">> \o sec \o <<",">> \o ms

srtBlock(lyric, index) ==
  toString(index + 1) \o <<"\n">>
    \o formatSrtTime(lyric.startTime) \o <<" ", "-", "-", ">", " ">>
    \o formatSrtTime(lyric.endTime) \o <<"\n">>
    \o lyric.text \o <<"\n", "\n">>

RECURSIVE srtBlocksFrom(_, _)
srtBlocksFrom(lyrics, i) ==
  IF i > Len(lyrics) THEN <<>>
  ELSE srtBlock(lyrics[i], i - 1) \o srtBlocksFrom(lyrics, i + 1)

generateSrtContent(lyrics) == srtBlocksFrom(lyrics, 1)

\* ----------------------------------------------------- SRT: reading
\* parseSrtTime of 'HH:MM:SS,mmm', in milliseconds
parseSrtTime(time) ==
  LET parts == split(time, ":")
      secondsAndMs == split(parts[3], ",")
      hours == parseInt(parts[1])
      minutes == parseInt(parts[2])
      seconds == parseInt(secondsAndMs[1])
      milliseconds == parseInt(secondsAndMs[2])
  IN  hours * 3600000 + minutes * 60000 + seconds * 1000 + milliseconds

\* \d{2}:\d{2}:\d{2},\d{3} at position p
timeAt(line, p) ==
  /\ p + 11 <= Len(line)
  /\ \A k \in {0, 1, 3, 4, 6, 7, 9, 10, 11} : IsDigit(line[p + k])
  /\ line[p + 2] = ":"
  /\ line[p + 5] = ":"
  /\ line[p + 8] = ","

\* the first position at or after p that holds no white space
RECURSIVE skipSpace(_, _)
skipSpace(line, p) ==
  IF p <= Len(line) /\ IsSpace(line[p]) THEN skipSpace(line, p + 1) ELSE p

\* where the second time of the pattern starts, if the pattern matches at p
arrowEnd(line, p) ==
  LET a == skipSpace(line, p + 12)
  IN  IF /\ a + 2 <= Len(line)
         /\ line[a] = "-" /\ line[a + 1] = "-" /\ line[a + 2] = ">"
      THEN skipSpace(line, a + 3)
      ELSE 0

timeRangeAt(line, p) ==
  /\ timeAt(line, p)
  /\ arrowEnd(line, p) # 0
  /\ timeAt(line, arrowEnd(line, p))

\* timeLine.match(/(\d{2}:\d{2}:\d{2},\d{3})\s*-->\s*(\d{2}:\d{2}:\d{2},\d{3})/):
\* the two groups of the leftmost match, <<>> when there is none
timeMatch(line) ==
  LET at == {p \in 1..Len(line) : timeRangeAt(line, p)}
  IN  IF at = {} THEN <<>>
      ELSE LET p == CHOOSE q \in at : \A r \in at : q <= r
               b == arrowEnd(line, p)
           IN  <<SubSeq(line, p, p + 11), SubSeq(line, b, b + 11)>>

\* /\n\s*\n/ at position p: the position of its last character, 0 if no match
blankEnd(str, p) ==
  IF p > Len(str) \/ str[p] # "\n" THEN 0
  ELSE LET stop == skipSpace(str, p + 1)
           breaks == {q \in (p + 1)..(stop - 1) : str[q] = "\n"}
       IN  IF breaks = {} THEN 0
           ELSE CHOOSE q \in breaks : \A r \in breaks : q >= r

\* str.split(/\n\s*\n/)
RECURSIVE splitBlocksFrom(_, _)
splitBlocksFrom(str, from) ==
  LET at == {i \in from..Len(str) : blankEnd(str, i) # 0}
  IN  IF at = {} THEN <<SubSeq(str, from, Len(str))>>
      ELSE <<SubSeq(str, from, leftmost(at) - 1)>>
             \o splitBlocksFrom(str, blankEnd(str, leftmost(at)) + 1)

splitBlocks(str) == splitBlocksFrom(str, 1)

\* (variant: the time line is taken to be the second line of the block)
timeLineIndexSecond(lines) == IF Len(lines) >= 2 THEN 2 ELSE 0

\* lines.findIndex(line => line.includes('-->')), 1-based, 0 if none
timeLineIndex(lines) ==
  LET hits == {i \in 1..Len(lines) : includesArrow(lines[i])}
  IN  IF hits = {} THEN 0 ELSE CHOOSE i \in hits : \A j \in hits : i <= j

\* the body of the loop of parseSrt: the lyrics one block adds (none or one)
parseBlock(block) ==
  LET lines == split(block, "\n")
      at == timeLineIndex(lines)
  IN  IF Len(lines) < 2 \/ at = 0 THEN <<>>
      ELSE LET found == timeMatch(lines[at])
               text == trim(join(SubSeq(lines, at + 1, Len(lines)), "\n"))
           IN  IF found = <<>> \/ text = <<>> THEN <<>>
               ELSE <<Lyric(text, parseSrtTime(found[1]), parseSrtTime(found[2]))>>

RECURSIVE parseBlocksFrom(_, _)
parseBlocksFrom(blocks, i) ==
  IF i > Len(blocks) THEN <<>>
  ELSE parseBlock(blocks[i]) \o parseBlocksFrom(blocks, i + 1)

parseSrt(srtContent) ==
  parseBlocksFrom(splitBlocks(trim(replaceCrLf(srtContent))), 1)

\* ------------------------------------------------------------ the player
LoaderShown == exportProgress # NULL

\* The Loader is an overlay above the whole page: while it is shown the
\* controls of the player are out of reach and only its cancel button is not.
ControlsEnabled == ~LoaderShown

InitPlayer ==
  /\ isPlaying = FALSE
  /\ currentTime = 0
  /\ fontSize = 48
  /\ fontFamily = "sans-serif"
  /\ aspectRatio = "16:9"
  /\ resolution = "720p"
  /\ exportProgress = NULL
  /\ isExportCancelled = FALSE
  /\ audioTime = 0
  /\ audioPaused = TRUE
  /\ exportPc = "idle"
  /\ wasPlaying = FALSE
  /\ recorderState = "none"
  /\ canvasCurrentIndex = 0
  /\ frameTime = 0
  /\ downloaded = FALSE
  /\ alertShown = FALSE
  /\ srtDownload = NULL
  /\ bgIndex = 0
  /\ durationValue = 1
  /\ exportDurationValue = 1
  /\ currentBgIndex = 0


\* Math.min(Math.floor(t / (duration / count)), count - 1)
imageIndexAt(t, duration, count) ==
  IF (t * count) \div duration < count - 1 THEN (t * count) \div duration
  ELSE count - 1

\* a render after the first: audioRef holds the element, so durationValue is
\* its duration, and the effect on bgIndex has run
Rendered(playing, time) ==
  /\ durationValue' = Duration
  /\ bgIndex' = IF imageUrls > 1 /\ playing
                THEN imageIndexAt(time, Duration, imageUrls)
                ELSE bgIndex
  /\ UNCHANGED <<imageUrls, exportDurationValue, currentBgIndex>>

\* audio.play(): an element that has ended starts again from the beginning
AudioPlayFrom(t) == IF t >= Duration THEN 0 ELSE t

\* the body of handlePlayPause, also called by handleExportVideo
PlayPause(playing) ==
  /\ audioPaused' = playing
  /\ audioTime' = IF playing THEN audioTime ELSE AudioPlayFrom(audioTime)
  /\ isPlaying' = ~playing

handlePlayPause ==
  /\ ControlsEnabled
  /\ PlayPause(isPlaying)
  /\ Rendered(isPlaying', currentTime)
  /\ UNCHANGED <<appVars, timedLyrics, currentTime, settingVars, exportVars, srtDownload>>

\* the audio clock advances; at the end the element pauses and the 'ended'
\* listener clears isPlaying
AudioTick ==
  /\ ~audioPaused
  /\ audioTime < Duration
  /\ audioTime' = audioTime + 1
  /\ audioPaused' = (audioTime + 1 >= Duration)
  /\ isPlaying' = IF audioTime + 1 >= Duration THEN FALSE ELSE isPlaying
  /\ IF audioTime + 1 >= Duration THEN Rendered(FALSE, currentTime)
     ELSE UNCHANGED bgVars
  /\ UNCHANGED <<appVars, timedLyrics, currentTime, settingVars, exportVars, srtDownload>>

timeUpdateHandler ==
  /\ currentTime # audioTime
  /\ currentTime' = audioTime
  /\ Rendered(isPlaying, audioTime)
  /\ UNCHANGED <<appVars, timedLyrics, isPlaying, settingVars, audioVars, exportVars,
                 srtDownload>>

handleTimelineChange(time) ==
  /\ ControlsEnabled
  /\ audioTime' = time
  /\ currentTime' = time
  /\ audioPaused' = (audioPaused \/ time >= Duration)
  /\ isPlaying' = IF ~audioPaused /\ time >= Duration THEN FALSE ELSE isPlaying
  /\ Rendered(isPlaying', time)
  /\ UNCHANGED <<appVars, timedLyrics, settingVars, exportVars, srtDownload>>

\* ------------------------------------------------------------- controls
FontSizes == {48, 80}
FontFamilies == {"sans-serif", "serif"}
AspectRatios == {"16:9", "9:16", "1:1"}
Resolutions == {"720p", "1080p"}

setFontSize(value) ==
  /\ ControlsEnabled
  /\ fontSize' = value
  /\ Rendered(isPlaying, currentTime)
  /\ UNCHANGED <<appVars, timedLyrics, isPlaying, currentTime, fontFamily, aspectRatio,
                 resolution, audioVars, exportVars, srtDownload>>

setFontFamily(value) ==
  /\ ControlsEnabled
  /\ fontFamily' = value
  /\ Rendered(isPlaying, currentTime)
  /\ UNCHANGED <<appVars, timedLyrics, isPlaying, currentTime, fontSize, aspectRatio,
                 resolution, audioVars, exportVars, srtDownload>>

setAspectRatio(value) ==
  /\ ControlsEnabled
  /\ aspectRatio' = value
  /\ Rendered(isPlaying, currentTime)
  /\ UNCHANGED <<appVars, timedLyrics, isPlaying, currentTime, fontSize, fontFamily,
                 resolution, audioVars, exportVars, srtDownload>>

setResolution(value) ==
  /\ ControlsEnabled
  /\ resolution' = value
  /\ Rendered(isPlaying, currentTime)
  /\ UNCHANGED <<appVars, timedLyrics, isPlaying, currentTime, fontSize, fontFamily,
                 aspectRatio, audioVars, exportVars, srtDownload>>

\* (variant: the list is consumed while it is written out)
handleExportSrtConsuming ==
  /\ ControlsEnabled
  /\ srtDownload' = generateSrtContent(timedLyrics)
  /\ timedLyrics' = <<>>
  /\ UNCHANGED bgVars
  /\ UNCHANGED <<appVars, isPlaying, currentTime, settingVars, audioVars,
                 exportVars>>

\* the file handleExportSrt hands to the browser
handleExportSrt ==
  /\ ControlsEnabled
  /\ srtDownload' = generateSrtContent(timedLyrics)
  /\ UNCHANGED bgVars
  /\ UNCHANGED <<appVars, timedLyrics, isPlaying, currentTime, settingVars, audioVars,
                 exportVars>>

\* ---------------------------------------------------------- video export
handleCancelExport ==
  /\ LoaderShown
  /\ isExportCancelled' = TRUE
  /\ UNCHANGED bgVars
  /\ UNCHANGED <<appVars, timedLyrics, isPlaying, currentTime, settingVars, audioVars,
                 exportProgress, exportPc, wasPlaying, recorderState,
                 canvasCurrentIndex, frameTime, downloaded, alertShown,
                 srtDownload>>

\* handleExportVideo up to its first await.  wasPlaying is the isPlaying of
\* the render that made the handler, which line 237 reads after the await.
\* downloaded and alertShown record what this export has done so far.
handleExportVideo ==
  /\ ControlsEnabled
  /\ isExportCancelled' = FALSE
  /\ exportProgress' = "loading"
  /\ exportPc' = "loading"
  /\ wasPlaying' = isPlaying
  /\ recorderState' = "none"
  /\ canvasCurrentIndex' = 0
  /\ frameTime' = 0
  /\ downloaded' = FALSE
  /\ alertShown' = FALSE
  /\ exportDurationValue' = durationValue
  /\ durationValue' = Duration
  /\ currentBgIndex' = 0
  /\ UNCHANGED <<imageUrls, bgIndex>>
  /\ UNCHANGED <<appVars, timedLyrics, isPlaying, currentTime, settingVars, audioVars,
                 srtDownload>>

\* canvas.getContext('2d') gives null
handleExportVideoNoContext ==
  /\ ControlsEnabled
  /\ isExportCancelled' = FALSE
  /\ exportProgress' = NULL
  /\ alertShown' = TRUE
  /\ downloaded' = FALSE
  /\ UNCHANGED bgVars
  /\ UNCHANGED <<appVars, timedLyrics, isPlaying, currentTime, settingVars, audioVars,
                 exportPc, wasPlaying, recorderState, canvasCurrentIndex,
                 frameTime, srtDownload>>

\* the catch block of handleExportVideo
exportCatch ==
  /\ alertShown' = TRUE
  /\ exportProgress' = NULL
  /\ exportPc' = "idle"

\* (variant: playback is paused before the images are awaited)
loadImagesRejectedAfterPause ==
  /\ exportPc = "loading"
  /\ IF wasPlaying THEN PlayPause(TRUE)
     ELSE UNCHANGED <<audioTime, audioPaused, isPlaying>>
  /\ exportCatch
  /\ Rendered(isPlaying', currentTime)
  /\ UNCHANGED <<appVars, timedLyrics, currentTime, settingVars, isExportCancelled,
                 wasPlaying, recorderState, canvasCurrentIndex, frameTime,
                 downloaded, srtDownload>>

\* Promise.all(imageUrls.map(loadImage)) rejects
loadImagesRejected ==
  /\ exportPc = "loading"
  /\ exportCatch
  /\ Rendered(isPlaying, currentTime)
  /\ UNCHANGED <<appVars, timedLyrics, isPlaying, currentTime, settingVars, audioVars,
                 isExportCancelled, wasPlaying, recorderState,
                 canvasCurrentIndex, frameTime, downloaded, srtDownload>>

\* the images are loaded: playback is paused if it was on ...
pauseForExport ==
  IF wasPlaying THEN PlayPause(TRUE)
  ELSE UNCHANGED <<audioTime, audioPaused, isPlaying>>

\* ... and the audio graph or the recorder cannot be built: the catch block
exportSetupThrows ==
  /\ exportPc = "loading"
  /\ pauseForExport
  /\ exportCatch
  /\ Rendered(isPlaying', currentTime)
  /\ UNCHANGED <<appVars, timedLyrics, currentTime, settingVars, isExportCancelled,
                 wasPlaying, recorderState, canvasCurrentIndex, frameTime,
                 downloaded, srtDownload>>

\* ... or recording starts: lines 283-285 and the first requestAnimationFrame
startRecording ==
  /\ exportPc = "loading"
  /\ isPlaying' = IF wasPlaying THEN FALSE ELSE isPlaying
  /\ audioTime' = 0
  /\ audioPaused' = FALSE
  /\ recorderState' = "recording"
  /\ exportProgress' = "loaded"
  /\ exportPc' = "recording"
  /\ Rendered(isPlaying', currentTime)
  /\ UNCHANGED <<appVars, timedLyrics, currentTime, settingVars, isExportCancelled,
                 wasPlaying, canvasCurrentIndex, frameTime, downloaded,
                 alertShown, srtDownload>>

\* (variant: the cancel flag is not looked at)
frameStopsIgnoringCancel ==
  \/ audioTime >= Duration
  \/ recorderState # "recording"

\* (variant: the end of the audio is not looked at)
frameStopsOnlyOnCancel ==
  \/ recorderState # "recording"
  \/ isExportCancelled

\* the first lines of drawFrame: the loop ends
frameStops ==
  \/ audioTime >= Duration
  \/ recorderState # "recording"
  \/ isExportCancelled

drawFrameStop ==
  /\ recorderState' = IF recorderState = "recording" THEN "inactive"
                      ELSE recorderState
  /\ exportPc' = IF recorderState = "recording" THEN "stopping" ELSE "idle"
  /\ audioPaused' = TRUE
  /\ audioTime' = 0
  /\ UNCHANGED <<exportProgress, canvasCurrentIndex, frameTime, bgVars>>

drawFrameDraw ==
  /\ exportProgress' = "recording"
  /\ canvasCurrentIndex' = frameIndex(timedLyrics, audioTime)
  /\ frameTime' = audioTime
  /\ currentBgIndex' = imageIndexAt(audioTime, exportDurationValue, imageUrls)
  /\ durationValue' = Duration
  /\ UNCHANGED <<audioVars, recorderState, exportPc, imageUrls, bgIndex,
                 exportDurationValue>>

drawFrame ==
  /\ exportPc = "recording"
  /\ IF frameStops THEN drawFrameStop ELSE drawFrameDraw
  /\ UNCHANGED <<appVars, timedLyrics, isPlaying, currentTime, settingVars,
                 isExportCancelled, wasPlaying, downloaded, alertShown,
                 srtDownload>>

recorderOnStop ==
  /\ exportPc = "stopping"
  /\ downloaded' = IF ~isExportCancelled THEN TRUE ELSE downloaded
  /\ exportProgress' = NULL
  /\ audioPaused' = IF wasPlaying THEN FALSE ELSE audioPaused
  /\ audioTime' = IF wasPlaying THEN AudioPlayFrom(audioTime) ELSE audioTime
  /\ exportPc' = "idle"
  /\ Rendered(isPlaying, currentTime)
  /\ UNCHANGED <<appVars, timedLyrics, isPlaying, currentTime, settingVars,
                 isExportCancelled, wasPlaying, recorderState,
                 canvasCurrentIndex, frameTime, alertShown, srtDownload>>

\* ------------------------------------------------------------- the App
\* parsed.map(l => l.text).join('\n')
RECURSIVE joinTexts(_)
joinTexts(lyrics) ==
  IF Len(lyrics) = 0 THEN <<>>
  ELSE IF Len(lyrics) = 1 THEN lyrics[1].text
       ELSE lyrics[1].text \o <<"\n">> \o joinTexts(Tail(lyrics))

\* timedLyricsFromSrt when it is null; a list put there is never empty
NoSrtLyrics == <<>>

\* the form as it starts
FormEmpty ==
  /\ lyricsText = <<>>
  /\ songTitle = ""
  /\ artistName = ""
  /\ audioFile = NULL
  /\ audioDuration = 0

\* the form behind a preview of timedLyrics
FormFilled ==
  /\ lyricsText = joinTexts(timedLyrics)
  /\ songTitle = "s"
  /\ artistName = "a"
  /\ audioFile = "audio"
  /\ audioDuration = Duration

\* no AI call other than image generation is in flight
NoRun == [kind |-> "none", index |-> 0, stage |-> "none"]

\* a Loader that covers the page, like the one of the player, leaves the form
\* out of reach while it is shown
FormEnabled == ~(isLoading /\ loaderIsModal)

InitApp ==
  /\ previewEnteredFrom = "none"
  /\ timedLyricsFromSrt = NoSrtLyrics
  /\ backgroundImages = <<>>
  /\ isLoading = FALSE
  /\ isAiUnlocked = FALSE
  /\ imageRuns = <<>>
  /\ isKeySelected = FALSE
  /\ videoUrl = NULL
  /\ aiRun = NoRun
  /\ appAlert = NULL
  /\ srtLines = <<>>
  /\ srtReading = NULL
  /\ srtText = NULL
  /\ parsed = NULL

\* (variant: going back lands on the first screen)
handleBackToWelcome == appState' = "WELCOME"

handleBackToForm == appState' = "FORM"

handleBackToTiming == appState' = "TIMING"

\* onBack of the TIMING screen
timingOnBack ==
  /\ appState = "TIMING"
  /\ handleBackToForm
  /\ UNCHANGED <<previewEnteredFrom, loaderIsModal, playerVars, aiVars, lyricsText, timedLyricsFromSrt, appAlert, srtVars,
                 formVars>>

\* onBack of the PREVIEW screen
previewOnBack ==
  /\ appState = "PREVIEW"
  /\ ControlsEnabled
  /\ IF timedLyricsFromSrt # NoSrtLyrics THEN handleBackToForm ELSE handleBackToTiming
  /\ UNCHANGED <<previewEnteredFrom, loaderIsModal, playerVars, aiVars, lyricsText, timedLyricsFromSrt, appAlert, srtVars,
                 formVars>>

\* handleSrtUpload up to its await: the file chosen is being read
handleSrtUpload ==
  /\ appState = "FORM"
  /\ FormEnabled
  /\ srtReading = NULL
  /\ srtReading' = join(srtLines, "\n")
  /\ UNCHANGED <<playerVars, aiVars, formVars, appState, previewEnteredFrom, loaderIsModal, lyricsText, timedLyricsFromSrt,
                 appAlert, srtLines, srtText, parsed>>

\* file.text() resolves: the rest of the try block
srtTextResolved ==
  /\ srtReading # NULL
  /\ srtText' = srtReading
  /\ parsed' = parseSrt(srtReading)
  /\ IF Len(parsed') > 0
     THEN /\ timedLyricsFromSrt' = parsed'
          /\ lyricsText' = joinTexts(parsed')
          /\ UNCHANGED appAlert
     ELSE /\ appAlert' = "srtNoLyrics"
          /\ UNCHANGED <<timedLyricsFromSrt, lyricsText>>
  /\ srtReading' = NULL
  /\ UNCHANGED <<playerVars, aiVars, formVars, appState, previewEnteredFrom, loaderIsModal, srtLines>>

\* file.text() rejects: the catch block
srtTextRejected ==
  /\ srtReading # NULL
  /\ appAlert' = "srtReadError"
  /\ srtReading' = NULL
  /\ UNCHANGED <<playerVars, aiVars, formVars, appState, previewEnteredFrom, loaderIsModal, lyricsText, timedLyricsFromSrt,
                 srtLines, srtText, parsed>>

\* ---------------------------------------------------------- navigation
\* the audio input of the form
setAudioFile(value) ==
  /\ appState = "FORM"
  /\ FormEnabled
  /\ audioFile' = value
  /\ UNCHANGED <<playerVars, appState, previewEnteredFrom, loaderIsModal, lyricsText, timedLyricsFromSrt, appAlert,
                 srtVars, formVars, audioDuration, isKeySelected, videoUrl,
                 aiRun>>

\* the hidden audio element of the form has read the chosen file
handleAudioMetadata ==
  /\ appState = "FORM"
  /\ audioFile # NULL
  /\ audioDuration' = Duration
  /\ UNCHANGED <<playerVars, appState, previewEnteredFrom, loaderIsModal, lyricsText, timedLyricsFromSrt, appAlert,
                 srtVars, formVars, audioFile, isKeySelected, videoUrl, aiRun>>

\* (variant: the audio file is not asked for)
FieldsMissingButAudio ==
  lyricsText = <<>> \/ songTitle = "" \/ artistName = ""

\* !lyricsText || !audioFile || !songTitle || !artistName
FieldsMissing ==
  lyricsText = <<>> \/ audioFile = NULL \/ songTitle = "" \/ artistName = ""

\* the form is submitted
handleStart ==
  /\ appState = "FORM"
  /\ FormEnabled
  /\ IF FieldsMissing
     THEN /\ appAlert' = "fieldsRequired"
          /\ UNCHANGED <<appState, previewEnteredFrom, timedLyrics>>
     ELSE IF timedLyricsFromSrt # NoSrtLyrics
          THEN /\ timedLyrics' = timedLyricsFromSrt
               /\ appState' = "PREVIEW"
               /\ previewEnteredFrom' = "FORM"
               /\ UNCHANGED appAlert
          ELSE /\ appState' = "TIMING"
               /\ UNCHANGED <<timedLyrics, appAlert, previewEnteredFrom>>
  /\ UNCHANGED <<isPlaying, currentTime, settingVars, audioVars, exportVars,
                 srtDownload, bgVars, loaderIsModal, lyricsText, timedLyricsFromSrt, srtVars, formVars,
                 aiVars>>

\* the lists the timing screen can hand over: one lyric for each line timed
TimingResults == {TimingLyrics(n) : n \in 0..MaxLyrics}

\* onComplete of the TIMING screen
handleTimingComplete(lyrics) ==
  /\ appState = "TIMING"
  /\ timedLyrics' = lyrics
  /\ appState' = "PREVIEW"
  /\ previewEnteredFrom' = "TIMING"
  /\ UNCHANGED <<isPlaying, currentTime, settingVars, audioVars, exportVars,
                 srtDownload, bgVars, loaderIsModal, lyricsText, timedLyricsFromSrt, appAlert, srtVars,
                 formVars, aiVars>>

\* ------------------------------------------------- the form and its AI
\* the button of the WELCOME screen
welcomeOnStart ==
  /\ appState = "WELCOME"
  /\ appState' = "FORM"
  /\ UNCHANGED <<previewEnteredFrom, loaderIsModal, playerVars, aiVars, lyricsText, timedLyricsFromSrt, appAlert, srtVars,
                 formVars>>

\* the textarea, read-only once an SRT file has been taken
setLyricsText(value) ==
  /\ appState = "FORM"
  /\ FormEnabled
  /\ timedLyricsFromSrt = NoSrtLyrics
  /\ lyricsText' = value
  /\ UNCHANGED <<playerVars, aiVars, appState, previewEnteredFrom, loaderIsModal, timedLyricsFromSrt, appAlert, srtVars,
                 formVars>>

setSongTitle(value) ==
  /\ appState = "FORM"
  /\ FormEnabled
  /\ songTitle' = value
  /\ UNCHANGED <<playerVars, aiVars, appState, previewEnteredFrom, loaderIsModal, lyricsText, timedLyricsFromSrt, appAlert,
                 srtVars, artistName, backgroundImages, isLoading,
                 isAiUnlocked, imageRuns>>

setArtistName(value) ==
  /\ appState = "FORM"
  /\ FormEnabled
  /\ artistName' = value
  /\ UNCHANGED <<playerVars, aiVars, appState, previewEnteredFrom, loaderIsModal, lyricsText, timedLyricsFromSrt, appAlert,
                 srtVars, songTitle, backgroundImages, isLoading,
                 isAiUnlocked, imageRuns>>

\* an image of backgroundImages: made by request prompt of invocation run,
\* or a file of the user (run 0)
Image(run, prompt) == [run |-> run, prompt |-> prompt]

UploadedFile == Image(0, 0)

\* one file is chosen
handleImageUpload ==
  /\ appState = "FORM"
  /\ FormEnabled
  /\ backgroundImages' = Append(backgroundImages, UploadedFile)
  /\ videoUrl' = NULL
  /\ UNCHANGED <<playerVars, audioFile, audioDuration, isKeySelected, aiRun,
                 appState, previewEnteredFrom, loaderIsModal, lyricsText, timedLyricsFromSrt, appAlert,
                 srtVars, songTitle, artistName, isLoading, isAiUnlocked,
                 imageRuns>>

removeImage(index) ==
  /\ appState = "FORM"
  /\ FormEnabled
  /\ index \in DOMAIN backgroundImages
  /\ backgroundImages' =
       SubSeq(backgroundImages, 1, index - 1)
         \o SubSeq(backgroundImages, index + 1, Len(backgroundImages))
  /\ UNCHANGED <<playerVars, aiVars, appState, previewEnteredFrom, loaderIsModal, lyricsText, timedLyricsFromSrt, appAlert,
                 srtVars, songTitle, artistName, isLoading, isAiUnlocked,
                 imageRuns>>

AI_PASSWORD == "8888"

\* one request of imagePromises: pending, ok or failed, and how many times
\* it was sent
Request(status) == [status |-> status, issued |-> 1]

\* (variant: the whole waits for every request and keeps what succeeded)
promiseAllSettled(requests) ==
  IF \E j \in DOMAIN requests : requests[j].status = "pending" THEN "pending"
  ELSE "resolved"

\* imageCount: number = 4
imageCount == 4

\* Promise.all(imagePromises)
promiseAll(requests) ==
  IF \E j \in DOMAIN requests : requests[j].status = "failed" THEN "rejected"
  ELSE IF \A j \in DOMAIN requests : requests[j].status = "ok" THEN "resolved"
       ELSE "pending"

\* the images a resolved invocation returns
imagesOf(run, requests) ==
  LET all == [j \in DOMAIN requests |-> Image(run, j)]
  IN  SelectSeq(all, LAMBDA image : requests[image.prompt].status = "ok")

\* (variant: the loading state is not cleared after a failure)
imageGenerationCatchNoFinally ==
  /\ appAlert' = "imageGenerationFailed"
  /\ UNCHANGED <<backgroundImages, isLoading>>

\* catch and finally of runAiImageGeneration
imageGenerationCatch ==
  /\ appAlert' = "imageGenerationFailed"
  /\ isLoading' = FALSE
  /\ UNCHANGED backgroundImages

\* runAiImageGeneration after its await, the invocation having gone from
\* pending to outcome
imageGenerationAfterAwait(run, requests, outcome) ==
  IF outcome = "resolved"
  THEN /\ backgroundImages' = backgroundImages \o imagesOf(run, requests)
       /\ isLoading' = FALSE
       /\ UNCHANGED appAlert
  ELSE IF outcome = "rejected" THEN imageGenerationCatch
       ELSE UNCHANGED <<backgroundImages, isLoading, appAlert>>

\* runAiImageGeneration up to its await; lastAlert is the alert shown before it
runAiImageGeneration(lastAlert) ==
  IF lyricsText = <<>> \/ songTitle = "" \/ artistName = ""
  THEN /\ appAlert' = "imageFieldsMissing"
       /\ UNCHANGED <<isLoading, imageRuns>>
  ELSE /\ isLoading' = TRUE
       /\ imageRuns' = Append(imageRuns, [outcome |-> "pending", requests |-> <<>>])
       /\ appAlert' = lastAlert

\* handleAiRequest(runAiImageGeneration); password is the answer to the prompt
handleAiRequestImages(password) ==
  /\ appState = "FORM"
  /\ FormEnabled
  /\ IF isAiUnlocked
     THEN runAiImageGeneration(appAlert) /\ UNCHANGED isAiUnlocked
     ELSE IF password = AI_PASSWORD
          THEN isAiUnlocked' = TRUE /\ runAiImageGeneration("aiUnlocked")
          ELSE /\ appAlert' = IF password # NULL THEN "wrongPassword" ELSE appAlert
               /\ UNCHANGED <<isAiUnlocked, isLoading, imageRuns>>
  /\ UNCHANGED <<playerVars, aiVars, appState, previewEnteredFrom, loaderIsModal, lyricsText, timedLyricsFromSrt, srtVars,
                 songTitle, artistName, backgroundImages>>

\* the invocation run of generateImagesForLyrics goes on with requests
imageRunStep(run, requests, outcome) ==
  /\ imageRuns' = [imageRuns EXCEPT ![run] =
                     [outcome |-> outcome, requests |-> requests]]
  /\ IF imageRuns[run].outcome = "pending"
     THEN imageGenerationAfterAwait(run, requests, outcome)
     ELSE UNCHANGED <<backgroundImages, isLoading, appAlert>>
  /\ UNCHANGED <<playerVars, aiVars, appState, previewEnteredFrom, loaderIsModal, lyricsText, timedLyricsFromSrt, srtVars,
                 songTitle, artistName, isAiUnlocked>>

AwaitsPrompts(run) ==
  /\ run \in DOMAIN imageRuns
  /\ imageRuns[run].outcome = "pending"
  /\ imageRuns[run].requests = <<>>

\* the prompt request answers with count prompts; one image request is sent
\* for each, and none makes the function throw
promptsResolved(run, count) ==
  /\ AwaitsPrompts(run)
  /\ imageRunStep(run, [j \in 1..count |-> Request("pending")],
                  IF count = 0 THEN "rejected" ELSE "pending")

\* the prompt request fails, or its answer is not JSON
promptsFailed(run) ==
  /\ AwaitsPrompts(run)
  /\ imageRunStep(run, <<>>, "rejected")

\* one image request of the invocation run settles
requestSettles(run, prompt, status) ==
  /\ run \in DOMAIN imageRuns
  /\ prompt \in DOMAIN imageRuns[run].requests
  /\ imageRuns[run].requests[prompt].status = "pending"
  /\ LET requests == [imageRuns[run].requests EXCEPT ![prompt].status = status]
     IN  imageRunStep(run, requests,
                      IF imageRuns[run].outcome = "pending"
                      THEN promiseAll(requests) ELSE imageRuns[run].outcome)

\* the answer holds an image
imageResolved(run, prompt) == requestSettles(run, prompt, "ok")

\* the request fails, or its answer holds no image
imageFailed(run, prompt) == requestSettles(run, prompt, "failed")

\* --------------------------------------- the other AI actions of the form
\* the key dialog of the host is open
DialogOpen == aiRun.stage = "selectKey"

Run(kind, index, stage) == [kind |-> kind, index |-> index, stage |-> stage]

\* (variant: any answer to the prompt but a cancel unlocks)
passwordAccepted(password) == password # NULL

\* password === AI_PASSWORD
passwordCorrect(password) == password = AI_PASSWORD

\* an AI call that is awaited ends: what the handler does after it
aiRunStep ==
  UNCHANGED <<playerVars, appState, previewEnteredFrom, loaderIsModal, lyricsText, srtVars, songTitle, artistName,
              isAiUnlocked, imageRuns, audioFile, audioDuration>>

\* runAiLyricTiming up to its await
runAiLyricTiming(lastAlert) ==
  IF FieldsMissing \/ audioDuration = 0
  THEN /\ appAlert' = "timingFieldsMissing"
       /\ UNCHANGED <<isLoading, aiRun, isKeySelected>>
  ELSE /\ isLoading' = TRUE
       /\ aiRun' = Run("timing", 0, "request")
       /\ appAlert' = lastAlert
       /\ UNCHANGED isKeySelected

\* what generateSrtFromLyrics can resolve to: an SRT text with one lyric, or
\* a text that is no SRT
AiSrtContents == {generateSrtContent(TimingLyrics(1)), <<"h", "i">>}

\* generateSrtFromLyrics resolves
timingResolved(srtContent) ==
  /\ aiRun.kind = "timing"
  /\ IF Len(parseSrt(srtContent)) > 0
     THEN /\ timedLyricsFromSrt' = parseSrt(srtContent)
          /\ appAlert' = "timingDone"
     ELSE /\ appAlert' = "timingFailed"
          /\ UNCHANGED timedLyricsFromSrt
  /\ isLoading' = FALSE
  /\ aiRun' = NoRun
  /\ aiRunStep
  /\ UNCHANGED <<backgroundImages, isKeySelected, videoUrl>>

\* generateSrtFromLyrics rejects
timingRejected ==
  /\ aiRun.kind = "timing"
  /\ appAlert' = "timingFailed"
  /\ isLoading' = FALSE
  /\ aiRun' = NoRun
  /\ aiRunStep
  /\ UNCHANGED <<timedLyricsFromSrt, backgroundImages, isKeySelected, videoUrl>>

\* an image the user chose is a File, any other is a data URL
IsFile(image) == image = UploadedFile

EditedImage == Image(0, 1)

\* runAiImageEdit(index) up to its first await; text is the answer to
\* window.prompt
runAiImageEdit(index, text, lastAlert) ==
  IF text = NULL \/ text = ""
  THEN /\ appAlert' = lastAlert
       /\ UNCHANGED <<isLoading, aiRun, isKeySelected>>
  ELSE /\ isLoading' = TRUE
       /\ aiRun' = Run("edit", index,
                       IF IsFile(backgroundImages[index]) THEN "toBase64"
                       ELSE "request")
       /\ appAlert' = lastAlert
       /\ UNCHANGED isKeySelected

\* fileToBase64 resolves, in an edit or before a video generation
fileToBase64Resolved ==
  /\ aiRun.stage = "toBase64"
  /\ aiRun' = [aiRun EXCEPT !.stage = "request"]
  /\ aiRunStep
  /\ UNCHANGED <<timedLyricsFromSrt, appAlert, backgroundImages, isLoading,
                 isKeySelected, videoUrl>>

\* a slot of an array that was never assigned
EmptySlot == Image(-1, -1)

\* newImages = [...prev]; newImages[index] = value: an index past the end
\* makes the array longer, with empty slots in between
arraySet(array, index, value) ==
  [i \in 1..(IF index > Len(array) THEN index ELSE Len(array)) |->
     IF i = index THEN value
     ELSE IF i <= Len(array) THEN array[i] ELSE EmptySlot]

\* editImage resolves
editResolved ==
  /\ aiRun.kind = "edit"
  /\ aiRun.stage = "request"
  /\ backgroundImages' = arraySet(backgroundImages, aiRun.index, EditedImage)
  /\ isLoading' = FALSE
  /\ aiRun' = NoRun
  /\ aiRunStep
  /\ UNCHANGED <<timedLyricsFromSrt, appAlert, isKeySelected, videoUrl>>

\* fileToBase64 or editImage rejects
editRejected ==
  /\ aiRun.kind = "edit"
  /\ appAlert' = "imageEditFailed"
  /\ isLoading' = FALSE
  /\ aiRun' = NoRun
  /\ aiRunStep
  /\ UNCHANGED <<timedLyricsFromSrt, backgroundImages, isKeySelected, videoUrl>>

\* (variant: the generation starts whether or not a key has been selected)
runAiVideoGenerationNoKeyCheck(lastAlert) ==
  IF backgroundImages = <<>>
  THEN /\ appAlert' = "videoNeedsImage"
       /\ UNCHANGED <<isLoading, aiRun, isKeySelected>>
  ELSE /\ isLoading' = TRUE
       /\ aiRun' = Run("video", 0,
                       IF IsFile(backgroundImages[1]) THEN "toBase64"
                       ELSE "request")
       /\ appAlert' = lastAlert
       /\ UNCHANGED isKeySelected

\* runAiVideoGeneration up to its first await
runAiVideoGeneration(lastAlert) ==
  IF backgroundImages = <<>>
  THEN /\ appAlert' = "videoNeedsImage"
       /\ UNCHANGED <<isLoading, aiRun, isKeySelected>>
  ELSE IF ~isKeySelected
       THEN /\ appAlert' = "videoNeedsKey"
            /\ aiRun' = Run("video", 0, "selectKey")
            /\ UNCHANGED <<isLoading, isKeySelected>>
       ELSE /\ isLoading' = TRUE
            /\ aiRun' = Run("video", 0,
                            IF IsFile(backgroundImages[1]) THEN "toBase64"
                            ELSE "request")
            /\ appAlert' = lastAlert
            /\ UNCHANGED isKeySelected

\* checkKey, started on mount: hasSelectedApiKey() answers yes, here before any
\* AI action has been used
checkKey ==
  /\ ~isKeySelected
  /\ ~isAiUnlocked
  /\ aiRun = NoRun
  /\ isKeySelected' = TRUE
  /\ UNCHANGED <<isLoading, aiRun, timedLyricsFromSrt, appAlert,
                 backgroundImages, videoUrl>>
  /\ aiRunStep

\* window.aistudio.openSelectKey() resolves, before a generation or in its
\* catch block
selectKeyResolved ==
  /\ aiRun.stage \in {"selectKey", "reselectKey"}
  /\ isKeySelected' = TRUE
  /\ isLoading' = FALSE
  /\ aiRun' = NoRun
  /\ aiRunStep
  /\ UNCHANGED <<timedLyricsFromSrt, appAlert, backgroundImages, videoUrl>>

\* window.aistudio.openSelectKey() rejects
selectKeyRejected ==
  /\ aiRun.stage \in {"selectKey", "reselectKey"}
  /\ isLoading' = FALSE
  /\ aiRun' = NoRun
  /\ aiRunStep
  /\ UNCHANGED <<timedLyricsFromSrt, appAlert, backgroundImages, isKeySelected,
                 videoUrl>>

\* generateVideoFromImage resolves
videoResolved ==
  /\ aiRun.kind = "video"
  /\ aiRun.stage = "request"
  /\ videoUrl' = "video"
  /\ backgroundImages' = <<backgroundImages[1]>>
  /\ isLoading' = FALSE
  /\ aiRun' = NoRun
  /\ aiRunStep
  /\ UNCHANGED <<timedLyricsFromSrt, appAlert, isKeySelected>>

\* fileToBase64 or generateVideoFromImage rejects; keyNotFound says whether
\* the message of the error holds "API Key not found"
videoRejected(keyNotFound) ==
  /\ aiRun.kind = "video"
  /\ aiRun.stage \in {"toBase64", "request"}
  /\ IF keyNotFound
     THEN /\ appAlert' = "videoKeyInvalid"
          /\ isKeySelected' = FALSE
          /\ aiRun' = Run("video", 0, "reselectKey")
          /\ UNCHANGED isLoading
     ELSE /\ appAlert' = "videoFailed"
          /\ isLoading' = FALSE
          /\ aiRun' = NoRun
          /\ UNCHANGED isKeySelected
  /\ aiRunStep
  /\ UNCHANGED <<timedLyricsFromSrt, backgroundImages, videoUrl>>

\* the action a button hands to handleAiRequest; lastAlert is the alert that
\* stays shown when the action shows none
aiAction(kind, index, text, lastAlert) ==
  CASE kind = "timing" -> runAiLyricTiming(lastAlert)
    [] kind = "edit" -> runAiImageEdit(index, text, lastAlert)
    [] kind = "video" -> runAiVideoGeneration(lastAlert)

\* handleAiRequest(action) for the actions above; the action says what
\* becomes of appAlert, isLoading, aiRun and isKeySelected
handleAiRequest(kind, index, text, password) ==
  /\ appState = "FORM"
  /\ FormEnabled
  /\ ~DialogOpen
  /\ IF isAiUnlocked
     THEN aiAction(kind, index, text, appAlert) /\ UNCHANGED isAiUnlocked
     ELSE IF passwordCorrect(password)
          THEN isAiUnlocked' = TRUE /\ aiAction(kind, index, text, "aiUnlocked")
          ELSE /\ appAlert' = IF password # NULL THEN "wrongPassword" ELSE appAlert
               /\ UNCHANGED <<isAiUnlocked, isLoading, aiRun, isKeySelected>>
  /\ UNCHANGED <<playerVars, appState, previewEnteredFrom, loaderIsModal, lyricsText, timedLyricsFromSrt, srtVars,
                 songTitle, artistName, backgroundImages, imageRuns, audioFile,
                 audioDuration, videoUrl>>

\* --------------------------------------------- one preview/export session
Init ==
  /\ imageUrls = 1
  /\ loaderIsModal = TRUE
  /\ timedLyrics \in {TimingLyrics(n) : n \in 0..MaxLyrics}
  /\ InitPlayer
  /\ appState = "PREVIEW"
  /\ FormFilled
  /\ InitApp

Next ==
  \/ handlePlayPause
  \/ AudioTick
  \/ timeUpdateHandler
  \/ \E time \in 0..Duration : handleTimelineChange(time)
  \/ handleExportVideo
  \/ handleExportVideoNoContext
  \/ handleCancelExport
  \/ loadImagesRejected
  \/ exportSetupThrows
  \/ startRecording
  \/ drawFrame
  \/ recorderOnStop

Spec == Init /\ [][Next]_vars

\* the same with the frame callback and the recorder's stop event delivered
FairSpec ==
  Spec /\ WF_vars(drawFrame) /\ WF_vars(recorderOnStop)

\* the same with the audio element playing on while it is not paused
FairExport == FairSpec /\ WF_vars(AudioTick)

\* the session with the controls below the preview as well
NextControls ==
  \/ Next
  \/ \E value \in FontSizes : setFontSize(value)
  \/ \E value \in FontFamilies : setFontFamily(value)
  \/ \E value \in AspectRatios : setAspectRatio(value)
  \/ \E value \in Resolutions : setResolution(value)
  \/ handleExportSrt

SpecControls == Init /\ [][NextControls]_vars

\* ------------------------------------------- several background images
MaxImages == 2   \* most background images

InitBackground ==
  /\ imageUrls \in 1..MaxImages
  /\ loaderIsModal = TRUE
  /\ timedLyrics = TimingLyrics(1)
  /\ InitPlayer
  /\ appState = "PREVIEW"
  /\ FormFilled
  /\ InitApp

SpecBackground == InitBackground /\ [][Next]_vars

\* ---------------------------------------------- preview-only specification
InitSync ==
  /\ imageUrls = 1
  /\ loaderIsModal = TRUE
  /\ timedLyrics \in AnyLyrics
  /\ InitPlayer
  /\ appState = "PREVIEW"
  /\ FormFilled
  /\ InitApp

NextSync ==
  \/ handlePlayPause
  \/ AudioTick
  \/ timeUpdateHandler
  \/ \E time \in 0..Duration : handleTimelineChange(time)

SpecSync == InitSync /\ [][NextSync]_vars

\* ------------------------------------------- SRT files written and read
MaxSrtLyrics == 2   \* longest list written out
MaxSrtLines == 4    \* longest hand-made file, in lines

\* lyric texts: one line, two lines with inner white space, an arrow, then
\* CR LF, an empty line, a line of white space, white space around, nothing
SrtTexts ==
  { <<"a">>,
    <<"a", " ", "b", "\n", "c">>,
    <<"-", "-", ">">>,
    <<"a", "\r", "\n", "b">>,
    <<"a", "\n", "\n", "b">>,
    <<"a", "\n", " ", "\n", "b">>,
    <<" ", "a", "\n">>,
    <<>> }

\* start and end timestamps in milliseconds; the last pair reaches 100 hours
SrtTimes ==
  { <<0, 1001>>, <<3723004, 359999999>>, <<360000000, 360000001>> }

SrtLyrics ==
  SeqsUpTo({Lyric(text, time[1], time[2]) : text \in SrtTexts, time \in SrtTimes},
           MaxSrtLyrics)

\* lines of a hand-made file: text, a time range, a time range inside other
\* characters, an arrow without a time range, empty, white space, a lone CR
SrtFileLines ==
  { <<"h", "i">>,
    <<"0", "0", ":", "0", "0", ":", "0", "1", ",", "0", "0", "0", " ",
      "-", "-", ">", " ",
      "0", "0", ":", "0", "1", ":", "0", "2", ",", "5", "0", "0">>,
    <<"x", "0", "1", ":", "0", "0", ":", "0", "0", ",", "0", "0", "7",
      "-", "-", ">",
      "0", "1", ":", "0", "0", ":", "0", "0", ",", "0", "0", "8", "9">>,
    <<"0", " ", "-", "-", ">", " ", "1">>,
    <<>>,
    <<" ">>,
    <<"\r">> }

\* the user edits a file before choosing it
appendLine(line) ==
  /\ appState = "FORM"
  /\ srtDownload = NULL
  /\ srtReading = NULL
  /\ srtText = NULL
  /\ Len(srtLines) < MaxSrtLines
  /\ srtLines' = Append(srtLines, line)
  /\ UNCHANGED <<playerVars, aiVars, formVars, appState, previewEnteredFrom, loaderIsModal, lyricsText, timedLyricsFromSrt,
                 appAlert, srtReading, srtText, parsed>>

\* the user takes the file the SRT export wrote
chooseDownload ==
  /\ appState = "FORM"
  /\ srtDownload # NULL
  /\ srtReading = NULL
  /\ srtText = NULL
  /\ srtLines' = split(srtDownload, "\n")
  /\ UNCHANGED <<playerVars, aiVars, formVars, appState, previewEnteredFrom, loaderIsModal, lyricsText, timedLyricsFromSrt,
                 appAlert, srtReading, srtText, parsed>>

InitSrt ==
  /\ imageUrls = 1
  /\ loaderIsModal = TRUE
  /\ InitPlayer
  /\ InitApp
  /\ \/ appState = "PREVIEW" /\ timedLyrics \in SrtLyrics /\ FormFilled
     \/ appState = "FORM" /\ timedLyrics = <<>> /\ FormEmpty

NextSrt ==
  \/ handleExportSrt /\ appState = "PREVIEW" /\ srtDownload = NULL
  \/ previewOnBack /\ srtDownload # NULL
  \/ timingOnBack
  \/ chooseDownload
  \/ \E line \in SrtFileLines : appendLine(line)
  \/ handleSrtUpload /\ srtText = NULL /\ appAlert = NULL
  \/ srtTextResolved
  \/ srtTextRejected

SpecSrt == InitSrt /\ [][NextSrt]_vars

\* ------------------------------------------------ AI image generation
MaxInvocations == 2   \* invocations of generateImagesForLyrics
MaxPrompts == 2       \* prompts one invocation can get
MaxUploads == 1       \* files the user adds

LyricsTexts == {<<>>, <<"x">>}
SongTitles == {"", "s"}
ArtistNames == {"", "a"}
Passwords == {AI_PASSWORD, "0000", NULL}

InitImages ==
  /\ imageUrls = 1
  /\ loaderIsModal = TRUE
  /\ InitPlayer
  /\ InitApp
  /\ appState = "WELCOME"
  /\ timedLyrics = <<>>
  /\ FormEmpty

NextImages ==
  \/ welcomeOnStart
  \/ \E value \in LyricsTexts : setLyricsText(value) /\ imageRuns = <<>>
  \/ \E value \in SongTitles : setSongTitle(value) /\ imageRuns = <<>>
  \/ \E value \in ArtistNames : setArtistName(value) /\ imageRuns = <<>>
  \/ handleImageUpload
       /\ Cardinality({i \in DOMAIN backgroundImages :
                         backgroundImages[i] = UploadedFile}) < MaxUploads
  \/ \E index \in DOMAIN backgroundImages : removeImage(index)
  \/ \E password \in Passwords :
       handleAiRequestImages(password) /\ Len(imageRuns) < MaxInvocations
  \/ \E run \in DOMAIN imageRuns :
       \/ \E count \in 0..MaxPrompts : promptsResolved(run, count)
       \/ promptsFailed(run)
       \/ \E prompt \in 1..MaxPrompts :
            \/ imageResolved(run, prompt)
            \/ imageFailed(run, prompt)

SpecImages == InitImages /\ [][NextImages]_vars

\* ---------------------------------------------- screens and AI timing
AudioFiles == {NULL, "audio"}

InitNav ==
  /\ imageUrls = 1
  /\ loaderIsModal = TRUE
  /\ InitPlayer
  /\ InitApp
  /\ appState = "WELCOME"
  /\ timedLyrics = <<>>
  /\ FormEmpty

NextNav ==
  \/ welcomeOnStart
  \/ \E value \in LyricsTexts : setLyricsText(value)
  \/ \E value \in SongTitles : setSongTitle(value)
  \/ \E value \in ArtistNames : setArtistName(value)
  \/ \E value \in AudioFiles : setAudioFile(value)
  \/ handleAudioMetadata
  \/ handleStart
  \/ \E lyrics \in TimingResults : handleTimingComplete(lyrics)
  \/ timingOnBack
  \/ previewOnBack
  \/ \E password \in Passwords : handleAiRequest("timing", 0, NULL, password)
  \/ \E srtContent \in AiSrtContents : timingResolved(srtContent)
  \/ timingRejected

SpecNav == InitNav /\ [][NextNav]_vars

\* the user keeps submitting the form and keeps going back from the preview
FairNav == SpecNav /\ SF_vars(handleStart) /\ SF_vars(previewOnBack)

\* --------------------------------- screens with an SRT upload under way
\* an SRT file with one lyric is picked in the file input
pickSrtFile ==
  /\ appState = "FORM"
  /\ srtLines = <<>>
  /\ srtReading = NULL
  /\ srtLines' = split(generateSrtContent(TimingLyrics(1)), "\n")
  /\ UNCHANGED <<playerVars, aiVars, formVars, appState, previewEnteredFrom, loaderIsModal,
                 lyricsText, timedLyricsFromSrt, appAlert, srtReading, srtText,
                 parsed>>

NextBack ==
  \/ NextNav
  \/ pickSrtFile
  \/ handleSrtUpload /\ srtLines # <<>> /\ srtText = NULL
  \/ srtTextResolved
  \/ srtTextRejected

SpecBack == InitNav /\ [][NextBack]_vars

\* ------------------------------------------------- the four AI actions
EditTexts == {NULL, "", "night"}

InitAi ==
  /\ imageUrls = 1
  /\ loaderIsModal = TRUE
  /\ InitPlayer
  /\ InitApp
  /\ appState = "WELCOME"
  /\ timedLyrics = <<>>
  /\ FormEmpty

NextAi ==
  \/ welcomeOnStart
  \/ \E value \in LyricsTexts : setLyricsText(value) /\ ~isAiUnlocked
  \/ setSongTitle("s") /\ ~isAiUnlocked
  \/ setArtistName("a") /\ ~isAiUnlocked
  \/ setAudioFile("audio") /\ ~isAiUnlocked
  \/ handleAudioMetadata
  \/ handleImageUpload /\ Len(backgroundImages) < MaxUploads
  \/ \E password \in Passwords :
       \/ handleAiRequestImages(password) /\ imageRuns = <<>>
       \/ handleAiRequest("timing", 0, NULL, password)
       \/ handleAiRequest("video", 0, NULL, password)
       \/ \E index \in DOMAIN backgroundImages : \E text \in EditTexts :
            handleAiRequest("edit", index, text, password)
  \/ promptsFailed(1)
  \/ \E count \in 0..1 : promptsResolved(1, count)
  \/ imageResolved(1, 1)
  \/ imageFailed(1, 1)
  \/ \E srtContent \in AiSrtContents : timingResolved(srtContent)
  \/ timingRejected
  \/ fileToBase64Resolved
  \/ editResolved
  \/ editRejected
  \/ checkKey
  \/ selectKeyResolved
  \/ selectKeyRejected
  \/ videoResolved
  \/ \E keyNotFound \in BOOLEAN : videoRejected(keyNotFound)

SpecAi == InitAi /\ [][NextAi]_vars

\* ------------------------------------- image edits with the form in use
InitEdit ==
  /\ imageUrls = 1
  /\ loaderIsModal \in BOOLEAN
  /\ InitPlayer
  /\ InitApp
  /\ appState = "WELCOME"
  /\ timedLyrics = <<>>
  /\ FormEmpty

NextEdit ==
  \/ welcomeOnStart
  \/ handleImageUpload /\ Len(backgroundImages) <= MaxUploads
  \/ \E index \in DOMAIN backgroundImages : removeImage(index)
  \/ \E password \in Passwords :
       \E index \in DOMAIN backgroundImages : \E text \in EditTexts :
         handleAiRequest("edit", index, text, password) /\ aiRun = NoRun
  \/ fileToBase64Resolved
  \/ editResolved
  \/ editRejected

SpecEdit == InitEdit /\ [][NextEdit]_vars

\* ======================================================== the claims
PlaybackStarted == isPlaying \/ currentTime # 0

\* the lyrics whose interval [startTime, endTime) holds t, by position (1-based)
LyricsAt(t) ==
  {i \in 1..Len(timedLyrics) :
     timedLyrics[i].startTime <= t /\ t < timedLyrics[i].endTime}

FirstOf(S) == CHOOSE i \in S : \A j \in S : i <= j

\* C1: the lyric index of an exported frame equals the active index the
\* preview computes for the same playback time while playing.
C1_FrameIndexIsPreviewIndex ==
  canvasCurrentIndex # 0 =>
    canvasCurrentIndex = activeIndex(timedLyrics, frameTime, TRUE)

\* C2: once playback has started, whenever some lyric has
\* startTime <= currentTime < endTime, the active index is the 0-based
\* position of the first such lyric plus 2, which is that lyric's place in
\* the rendered list; a lyric whose endTime equals currentTime is not the one
\* found.
C2_ActiveLyricSelected ==
  PlaybackStarted =>
    /\ LyricsAt(currentTime) # {} =>
         /\ currentIndex = (FirstOf(LyricsAt(currentTime)) - 1) + 2
         /\ lyricsToRender[currentIndex + 1]
              = timedLyrics[FirstOf(LyricsAt(currentTime))]
    /\ \A i \in 1..Len(timedLyrics) :
         timedLyrics[i].endTime = currentTime =>
           findIndex(timedLyrics, currentTime) # i - 1

\* C2 witness: playing, a lyric is active and another one ends right now
C2_Witness ==
  /\ isPlaying
  /\ LyricsAt(currentTime) # {}
  /\ \E i \in 1..Len(timedLyrics) :
       /\ timedLyrics[i].endTime = currentTime
       /\ timedLyrics[i].startTime < currentTime
       /\ i < FirstOf(LyricsAt(currentTime))

C8_ImageFailureAborts ==
  /\ [][loadImagesRejected =>
          /\ recorderState' = "none"
          /\ audioTime' = audioTime
          /\ audioPaused' = audioPaused
          /\ isPlaying' = isPlaying
          /\ ~downloaded'
          /\ alertShown'
          /\ exportProgress' = NULL]_vars
  /\ [][handleExportVideo =>
          /\ recorderState' = "none"
          /\ audioTime' = audioTime
          /\ audioPaused' = audioPaused
          /\ isPlaying' = isPlaying]_vars

\* C8 witness: an export started while playing has failed to load its images
C8_Witness ==
  /\ wasPlaying
  /\ isPlaying
  /\ ~audioPaused
  /\ exportPc = "idle"
  /\ alertShown
  /\ recorderState = "none"
  /\ exportProgress = NULL
  /\ ~downloaded

\* C9: no operation of the player changes timedLyrics.
C9_TimedLyricsImmutable == [][timedLyrics' = timedLyrics]_vars

\* C9 witness: the longest list after SRT export, a video export that was
\* downloaded, a seek and changed controls
C9_Witness ==
  /\ timedLyrics = TimingLyrics(MaxLyrics)
  /\ srtDownload # NULL
  /\ downloaded
  /\ currentTime # 0
  /\ fontSize # 48
  /\ aspectRatio # "16:9"
  /\ resolution # "720p"
  /\ fontFamily # "sans-serif"

\* C10: with n >= 1 lyrics the active index lies in 1..n+2 and is a position
\* of the rendered list, which has n+4 entries: two empty ones, the n lyrics
\* at positions 2..n+1, two empty ones.
C10_IndexInRenderedList ==
  Len(timedLyrics) > 0 =>
    LET n == Len(timedLyrics)
    IN  /\ currentIndex \in 1..(n + 2)
        /\ Len(lyricsToRender) = n + 4
        /\ currentIndex + 1 \in DOMAIN lyricsToRender
        /\ \A k \in {0, 1, n + 2, n + 3} : lyricsToRender[k + 1].text = <<>>
        /\ \A k \in 2..(n + 1) : lyricsToRender[k + 1] = timedLyrics[k - 1]

\* C10 witness: in a gap after a passed lyric, the index from the gap branch
C10_Witness ==
  /\ Len(timedLyrics) = MaxLyrics
  /\ PlaybackStarted
  /\ LyricsAt(currentTime) = {}
  /\ currentTime < timedLyrics[Len(timedLyrics)].endTime
  /\ currentIndex = lastPassedIndex(timedLyrics, currentTime) + 3
  /\ currentIndex = Len(timedLyrics) + 1

\* ---------------------------------------------------------------- C4
IsBlank(line) == \A i \in DOMAIN line : IsSpace(line[i])

HasCrLf(text) ==
  \E i \in 1..(Len(text) - 1) : text[i] = "\r" /\ text[i + 1] = "\n"

\* the texts the claim speaks of: not empty, no white space at either end,
\* no line that is empty or all white space
PlainText(text) ==
  /\ Len(text) > 0
  /\ ~IsSpace(text[1])
  /\ ~IsSpace(text[Len(text)])
  /\ \A k \in DOMAIN split(text, "\n") : ~IsBlank(split(text, "\n")[k])

HundredHours == 100 * 3600000

PlainLyrics(lyrics) ==
  \A i \in DOMAIN lyrics :
    /\ PlainText(lyrics[i].text)
    /\ lyrics[i].startTime \in 0..(HundredHours - 1)
    /\ lyrics[i].endTime \in 0..(HundredHours - 1)

\* the file written by the SRT export has been read back and parsed
ReadBack == srtDownload # NULL /\ srtText # NULL /\ srtText = srtDownload

\* C4 as stated: for every list of lyrics whose texts are non-empty, without
\* white space at either end and without a blank line, and whose times are
\* whole milliseconds below 100 hours, parsing the exported file gives the
\* same list.
C4_RoundTripAsStated ==
  (ReadBack /\ PlainLyrics(timedLyrics)) => parsed = timedLyrics

\* C4: for every list of lyrics whose texts are non-empty, without white
\* space at either end, without a blank line and without a CR LF pair, and
\* whose times are whole milliseconds below 100 hours, parsing the exported
\* file gives the same list: same length, order, texts, and start and end
\* times to the millisecond.
C4_RoundTrip ==
  (/\ ReadBack
   /\ PlainLyrics(timedLyrics)
   /\ \A i \in DOMAIN timedLyrics : ~HasCrLf(timedLyrics[i].text))
    => parsed = timedLyrics

C4_Witness ==
  /\ ReadBack
  /\ PlainLyrics(timedLyrics)
  /\ \A i \in DOMAIN timedLyrics : ~HasCrLf(timedLyrics[i].text)
  /\ Len(timedLyrics) = 2
  /\ \E k \in DOMAIN timedLyrics[1].text : timedLyrics[1].text[k] = "\n"
  /\ timedLyrics[2].endTime = HundredHours - 1
  /\ parsed = timedLyrics
  /\ timedLyricsFromSrt = timedLyrics

\* ---------------------------------------------------------------- C5
\* the blocks of a text, read line by line: the maximal runs of lines that
\* are not blank
RECURSIVE runsFrom(_, _, _)
runsFrom(lines, i, run) ==
  LET closed == IF run = <<>> THEN <<>> ELSE <<run>>
  IN  IF i > Len(lines) THEN closed
      ELSE IF IsBlank(lines[i]) THEN closed \o runsFrom(lines, i + 1, <<>>)
           ELSE runsFrom(lines, i + 1, Append(run, lines[i]))

BlocksOf(text) == runsFrom(split(trim(replaceCrLf(text)), "\n"), 1, <<>>)

\* a block holds a line with a well-formed time range and a line after it
HoldsTimeRange(block) ==
  \E i \in 1..(Len(block) - 1) : timeMatch(block[i]) # <<>>

ArrowLines(block) == {i \in DOMAIN block : includesArrow(block[i])}

\* the first line of the block with an arrow holds a well-formed time range
\* and a line comes after it
FirstArrowHoldsTimeRange(block) ==
  /\ ArrowLines(block) # {}
  /\ FirstOf(ArrowLines(block)) < Len(block)
  /\ timeMatch(block[FirstOf(ArrowLines(block))]) # <<>>

TextAfterFirstArrow(block) ==
  trim(join(SubSeq(block, FirstOf(ArrowLines(block)) + 1, Len(block)), "\n"))

RECURSIVE expectedFrom(_, _)
expectedFrom(blocks, i) ==
  IF i > Len(blocks) THEN <<>>
  ELSE (IF FirstArrowHoldsTimeRange(blocks[i])
        THEN <<TextAfterFirstArrow(blocks[i])>> ELSE <<>>)
         \o expectedFrom(blocks, i + 1)

\* C5 as stated: parseSrt returns one lyric for every block that holds a
\* well-formed time range line followed by text, and nothing for any other.
C5_OnePerBlockAsStated ==
  srtText # NULL =>
    Len(parsed) = Cardinality({i \in DOMAIN BlocksOf(srtText) :
                                 HoldsTimeRange(BlocksOf(srtText)[i])})

\* C5: parseSrt returns, in the order of the input, one lyric for every
\* blank-line-separated block whose first line with an arrow holds a
\* well-formed time range and is followed by non-empty text, carrying that
\* text, and nothing for any other block; it always returns a list.
C5_OnePerBlock ==
  srtText # NULL =>
    /\ Len(parsed) = Len(expectedFrom(BlocksOf(srtText), 1))
    /\ \A k \in DOMAIN parsed :
         parsed[k].text = expectedFrom(BlocksOf(srtText), 1)[k]

C5_Witness ==
  /\ srtText # NULL
  /\ srtDownload = NULL
  /\ Len(BlocksOf(srtText)) = 2
  /\ ~FirstArrowHoldsTimeRange(BlocksOf(srtText)[1])
  /\ FirstArrowHoldsTimeRange(BlocksOf(srtText)[2])
  /\ Len(parsed) = 1
  /\ parsed[1].text = <<"h", "i">>
  /\ parsed[1].startTime = 1000
  /\ parsed[1].endTime = 62500

\* ---------------------------------------------------------------- C6
\* this step rejects the invocation run of generateImagesForLyrics
Rejects(run) ==
  /\ run \in DOMAIN imageRuns
  /\ imageRuns[run].outcome = "pending"
  /\ imageRuns'[run].outcome = "rejected"

\* C6: when generateImagesForLyrics rejects during runAiImageGeneration the
\* failure is caught: the failure alert is shown, backgroundImages and
\* appState stay as they are, and isLoading is inactive afterwards.
C6_FailureCaught ==
  [][\A run \in 1..MaxInvocations :
       Rejects(run) =>
         /\ appAlert' = "imageGenerationFailed"
         /\ backgroundImages' = backgroundImages
         /\ appState' = appState
         /\ ~isLoading']_vars

C6_Witness ==
  /\ \E run \in DOMAIN imageRuns :
       /\ imageRuns[run].outcome = "rejected"
       /\ \E j \in DOMAIN imageRuns[run].requests :
            imageRuns[run].requests[j].status = "failed"
  /\ appAlert = "imageGenerationFailed"
  /\ backgroundImages = <<UploadedFile>>
  /\ appState = "FORM"
  /\ ~isLoading

\* ---------------------------------------------------------------- C7
StatusesOf(run) ==
  {imageRuns[run].requests[j].status : j \in DOMAIN imageRuns[run].requests}

\* C7: image generation is all or nothing and never retried: an invocation
\* with a failed image request is rejected, every request of an invocation is
\* sent once and a settled request stays as it settled, and no image of a
\* rejected invocation is in backgroundImages.
C7_AllOrNothing ==
  /\ [](\A run \in DOMAIN imageRuns :
          /\ "failed" \in StatusesOf(run) => imageRuns[run].outcome = "rejected"
          /\ \A j \in DOMAIN imageRuns[run].requests :
               imageRuns[run].requests[j].issued = 1
          /\ imageRuns[run].outcome # "resolved" =>
               \A i \in DOMAIN backgroundImages : backgroundImages[i].run # run)
  /\ [][\A run \in DOMAIN imageRuns :
          /\ imageRuns[run].outcome = "rejected" =>
               imageRuns'[run].outcome = "rejected"
          /\ \A j \in DOMAIN imageRuns[run].requests :
               imageRuns[run].requests[j].status # "pending" =>
                 imageRuns'[run].requests[j] = imageRuns[run].requests[j]]_vars

C7_Witness ==
  /\ Len(imageRuns) = 2
  /\ imageRuns[1].outcome = "rejected"
  /\ StatusesOf(1) = {"ok", "failed"}
  /\ imageRuns[2].outcome = "resolved"
  /\ backgroundImages = <<Image(2, 1), Image(2, 2)>>
  /\ ~isLoading

\* --------------------------------------------------------------- C11
ScreenTransitions ==
  { <<"WELCOME", "FORM">>, <<"FORM", "TIMING">>, <<"FORM", "PREVIEW">>,
    <<"TIMING", "PREVIEW">>, <<"TIMING", "FORM">>, <<"PREVIEW", "FORM">>,
    <<"PREVIEW", "TIMING">> }

\* C11: the first screen is WELCOME, and the screen changes only along
\* WELCOME->FORM, FORM->TIMING, FORM->PREVIEW, TIMING->PREVIEW, TIMING->FORM,
\* PREVIEW->FORM and PREVIEW->TIMING; so WELCOME is never entered again.
C11_ScreenTransitions ==
  /\ appState = "WELCOME"
  /\ [][appState' # appState => <<appState, appState'>> \in ScreenTransitions]_vars

\* back on the timing screen from a preview of lyrics timed by hand
C11_Witness ==
  /\ appState = "TIMING"
  /\ Len(timedLyrics) > 0
  /\ timedLyricsFromSrt = NoSrtLyrics

\* --------------------------------------------------------------- C12
AllFieldsGiven ==
  lyricsText # <<>> /\ audioFile # NULL /\ songTitle # "" /\ artistName # ""

\* C12: submitting the form leaves FORM only if lyricsText, audioFile,
\* songTitle and artistName are all given; with one missing, appState and
\* timedLyrics stay and an alert is raised.  When it leaves FORM it goes to
\* PREVIEW with timedLyrics = timedLyricsFromSrt if that is set, and to TIMING
\* otherwise.
C12_FormSubmission ==
  /\ [][(handleStart /\ ~AllFieldsGiven) =>
          /\ appState' = appState
          /\ timedLyrics' = timedLyrics
          /\ appAlert' = "fieldsRequired"]_vars
  /\ [][(handleStart /\ AllFieldsGiven) =>
          IF timedLyricsFromSrt # NoSrtLyrics
          THEN appState' = "PREVIEW" /\ timedLyrics' = timedLyricsFromSrt
          ELSE appState' = "TIMING" /\ timedLyrics' = timedLyrics]_vars
  /\ [][(appState = "FORM" /\ appState' # "FORM") => AllFieldsGiven]_vars

C12_Witness ==
  /\ appState = "PREVIEW"
  /\ timedLyricsFromSrt # NoSrtLyrics
  /\ timedLyrics = timedLyricsFromSrt
  /\ AllFieldsGiven

\* --------------------------------------------------------------- C13
\* C13: an invocation of generateImagesForLyrics that succeeds resolves to
\* exactly imageCount images.
C13_ResolvesToImageCount ==
  \A run \in DOMAIN imageRuns :
    imageRuns[run].outcome = "resolved" =>
      Len(imagesOf(run, imageRuns[run].requests)) = imageCount

\* --------------------------------------------------------------- C15
\* once the lyrics have been timed by AI the timing screen is not shown again
TimingUnreachableAfterAi == timedLyricsFromSrt # NoSrtLyrics => appState # "TIMING"

\* C15: after AI auto-timing has succeeded the manual timing screen can still
\* be reached: a user who keeps the form filled in, keeps submitting it and
\* keeps going back from the preview gets to TIMING.
C15_TimingReachableAfterAi ==
  (timedLyricsFromSrt # NoSrtLyrics)
    ~> (appState = "TIMING" \/ ~AllFieldsGiven \/ isLoading)

\* --------------------------------------------------------------- C17
\* this step starts an AI action: a call begins, or the action stops at its
\* own check with an alert
AiActionStarts ==
  \/ isLoading' /\ ~isLoading
  \/ aiRun' # aiRun /\ aiRun = NoRun
  \/ Len(imageRuns') > Len(imageRuns)
  \/ /\ appAlert' # appAlert
     /\ appAlert' \in {"imageFieldsMissing", "timingFieldsMissing",
                       "videoNeedsImage", "videoNeedsKey"}

\* some button of the form calls handleAiRequest and the prompt gets password
AiRequested(password) ==
  \/ handleAiRequestImages(password)
  \/ handleAiRequest("timing", 0, NULL, password)
  \/ handleAiRequest("video", 0, NULL, password)
  \/ \E index \in DOMAIN backgroundImages : \E text \in EditTexts :
       handleAiRequest("edit", index, text, password)

\* C17: an AI action starts only with AI unlocked before or by the password
\* just entered; a wrong password or a cancelled prompt starts nothing and
\* leaves isAiUnlocked false; AI gets unlocked only by the configured
\* password, and once unlocked it stays unlocked.
C17_PasswordGate ==
  /\ [][AiActionStarts => (isAiUnlocked \/ AiRequested(AI_PASSWORD))]_vars
  /\ [][\A password \in Passwords \ {AI_PASSWORD} :
          (~isAiUnlocked /\ AiRequested(password)) =>
            (~isAiUnlocked' /\ ~AiActionStarts)]_vars
  /\ [][(~isAiUnlocked /\ isAiUnlocked') => AiRequested(AI_PASSWORD)]_vars
  /\ [][isAiUnlocked => isAiUnlocked']_vars

C17_Witness ==
  /\ isAiUnlocked
  /\ isLoading
  /\ aiRun.kind = "video"
  /\ aiRun.stage \in {"toBase64", "request"}
  /\ isKeySelected

\* --------------------------------------------------------------- C14
\* start and end times do not go back along the list
Ordered(lyrics) ==
  \A i \in 1..(Len(lyrics) - 1) :
    /\ lyrics[i].startTime <= lyrics[i + 1].startTime
    /\ lyrics[i].endTime <= lyrics[i + 1].endTime

\* the 0-based positions of lyricsToRender shown fully opaque
OpaqueLines ==
  {k \in 0..(Len(lyricsToRender) - 1) :
     getLyricStyle(k, currentIndex, Len(timedLyrics)).opacity = 10}

\* the playback time is between the end of lyric i and the start of the next
InGapAfter(i) ==
  /\ i \in 1..(Len(timedLyrics) - 1)
  /\ currentTime >= timedLyrics[i].endTime
  /\ currentTime < timedLyrics[i + 1].startTime

\* C14: while the playback time is in a gap between two consecutive lyrics
\* the active index designates an empty dummy entry, and no line with text is
\* shown fully opaque.
C14_GapShowsDummy ==
  (PlaybackStarted /\ Ordered(timedLyrics) /\ \E i \in DOMAIN timedLyrics : InGapAfter(i))
    => /\ lyricsToRender[currentIndex + 1].text = <<>>
       /\ \A k \in OpaqueLines : lyricsToRender[k + 1].text = <<>>

C18_IndexBeforePlayback ==
  (currentTime = 0 /\ ~isPlaying) =>
    /\ currentIndex = 1
    /\ Len(timedLyrics) > 0 => lyricsToRender[currentIndex + 1].text = <<>>

\* a lyric that starts at 0 and is not yet shown
C18_Witness ==
  /\ currentTime = 0
  /\ ~isPlaying
  /\ Len(timedLyrics) > 0
  /\ timedLyrics[1].startTime = 0
  /\ timedLyrics[1].endTime > 0
  /\ audioTime > 0
  /\ currentIndex = 1

\* --------------------------------------------------------------- C19
AtOrPastLastEnd ==
  /\ Len(timedLyrics) > 0
  /\ Ordered(timedLyrics)
  /\ currentTime >= timedLyrics[Len(timedLyrics)].endTime

AllLinesHidden ==
  \A k \in 0..(Len(lyricsToRender) - 1) :
    getLyricStyle(k, currentIndex, Len(timedLyrics)).opacity = 0

\* C19 as stated: for an ordered list, with the playback time at or past the
\* end of the last lyric, the active index is n+2 and every line has opacity 0.
C19_AfterLastLyricAsStated ==
  AtOrPastLastEnd => (currentIndex = Len(timedLyrics) + 2 /\ AllLinesHidden)

\* C19: for a list whose start and end times do not go back, once playback
\* has started (not: time 0 and paused) and the playback time is at or past
\* the end of the last lyric, the active index is n+2, a trailing dummy entry,
\* and every rendered line has opacity 0.
C19_AfterLastLyric ==
  (AtOrPastLastEnd /\ PlaybackStarted) =>
    /\ currentIndex = Len(timedLyrics) + 2
    /\ lyricsToRender[currentIndex + 1].text = <<>>
    /\ AllLinesHidden

C19_Witness ==
  /\ AtOrPastLastEnd
  /\ PlaybackStarted
  /\ Len(timedLyrics) = 2
  /\ timedLyrics[2].endTime > timedLyrics[1].endTime
  /\ currentTime = timedLyrics[2].endTime
  /\ currentIndex = 4

\* --------------------------------------------------------------- C20
\* image k of count is the one for time t: t lies in [k*D/count, (k+1)*D/count),
\* and the last image is kept at t = D
SelectedAt(k, t) ==
  IF t >= Duration THEN k = imageUrls - 1
  ELSE k * Duration <= t * imageUrls /\ t * imageUrls < (k + 1) * Duration

FrameDrawn == canvasCurrentIndex # 0

\* C20: the background image index, in the preview while playing and in
\* every exported frame, lies within 0..n-1, and image k is the one selected
\* exactly while the time is in [k*D/n, (k+1)*D/n), the last image being kept
\* at t = D.
C20_BackgroundIndex ==
  /\ bgIndex \in 0..(imageUrls - 1)
  /\ isPlaying => SelectedAt(bgIndex, currentTime)
  /\ FrameDrawn =>
       /\ currentBgIndex \in 0..(imageUrls - 1)
       /\ SelectedAt(currentBgIndex, frameTime)

\* --------------------------------------------------------------- C21
\* this step issues the video-generation request
VideoRequestIssued ==
  /\ aiRun' # aiRun
  /\ aiRun'.kind = "video"
  /\ aiRun'.stage = "request"

\* this step is runAiVideoGeneration, called through handleAiRequest with the
\* password gate passed
VideoGenerationRuns ==
  /\ \E password \in Passwords : handleAiRequest("video", 0, NULL, password)
  /\ isAiUnlocked'

NoExportInProgress == exportProgress = NULL /\ exportPc = "idle"

\* C22: with no export in progress the isPlaying flag is true exactly when
\* the audio element is playing, also after an export that was started while
\* the preview was playing has finished or was cancelled.
C22_FlagMatchesAudio ==
  NoExportInProgress => (isPlaying <=> ~audioPaused)

\* --------------------------------------------------------------- C23
\* C23: the back action of the PREVIEW screen returns to the screen PREVIEW
\* was entered from: FORM when it was entered from FORM, TIMING when it was
\* entered by completing manual timing, whenever the SRT upload and the AI
\* timing complete in between.
C23_BackReturnsToOrigin ==
  [][(appState = "PREVIEW" /\ appState' # "PREVIEW") =>
       appState' = previewEnteredFrom]_vars

\* --------------------------------------------------------------- C24
\* this step is runAiImageEdit ending at its prompt, cancelled or left empty
EditPromptDeclined ==
  \E password \in Passwords : \E index \in DOMAIN backgroundImages :
    \E text \in {NULL, ""} : handleAiRequest("edit", index, text, password)

\* C24: when an AI image edit completes, backgroundImages keeps the length it
\* had just before and changes at most at the chosen position, also when
\* images were added or removed while the request was pending; a cancelled or
\* empty prompt and a failed edit leave backgroundImages unchanged.
C24_EditReplacesInPlace ==
  /\ [][editResolved =>
         /\ Len(backgroundImages') = Len(backgroundImages)
         /\ \A i \in DOMAIN backgroundImages :
              i # aiRun.index => backgroundImages'[i] = backgroundImages[i]]_vars
  /\ [][editRejected => UNCHANGED backgroundImages]_vars
  /\ [][EditPromptDeclined => UNCHANGED backgroundImages]_vars

====
